---------------------------- MODULE Spec2Model ----------------------------
(***************************************************************************)
(* A model of prog/analysis.go (syzkaller): the conservative resource and  *)
(* memory analysis of programs (analyze, state.analyze, addressable), the  *)
(* argument-tree traversal (foreachSubargImpl, foreachArgArray), the       *)
(* size-field resolution (generateSize, assignSizes, assignSizesCall) and  *)
(* the call sanitizer (sanitizeCall).                                      *)
(***************************************************************************)
EXTENDS Integers, Sequences, FiniteSets, TLC

(***************************************************************************)
(* uintptr.  A machine word is 64 bits wide; it is kept as four 16-bit     *)
(* limbs, least significant first, so that sums wrap exactly as they do in *)
(* the program.                                                            *)
(***************************************************************************)
Limb == 2^16

W(n) == <<n % Limb, (n \div Limb) % Limb, 0, 0>>

WMax == <<Limb - 1, Limb - 1, Limb - 1, Limb - 1>>

WCarry1(a, b) == (a[1] + b[1]) \div Limb
WCarry2(a, b) == (a[2] + b[2] + WCarry1(a, b)) \div Limb
WCarry3(a, b) == (a[3] + b[3] + WCarry2(a, b)) \div Limb
WCarry4(a, b) == (a[4] + b[4] + WCarry3(a, b)) \div Limb

\* a + b on uintptr: the carry out of the top limb is dropped.
WAdd(a, b) ==
    << (a[1] + b[1]) % Limb,
       (a[2] + b[2] + WCarry1(a, b)) % Limb,
       (a[3] + b[3] + WCarry2(a, b)) % Limb,
       (a[4] + b[4] + WCarry3(a, b)) % Limb >>

\* a > b on uintptr (unsigned).
WGt(a, b) ==
    \/ a[4] > b[4]
    \/ a[4] = b[4] /\ a[3] > b[3]
    \/ a[4] = b[4] /\ a[3] = b[3] /\ a[2] > b[2]
    \/ a[4] = b[4] /\ a[3] = b[3] /\ a[2] = b[2] /\ a[1] > b[1]

\* a & mask != 0 for a one-bit mask below 2^16.
WHasBit(a, mask) == (a[1] \div mask) % 2 = 1

\* a | mask for a one-bit mask below 2^16.
WSetBit(a, mask) == IF WHasBit(a, mask) THEN a ELSE [a EXCEPT ![1] = @ + mask]

\* a % m for m a power of two dividing 2^16.
WModSmall(a, m) == a[1] % m

\* uint32(a).
WLow32(a) == <<a[1], a[2], 0, 0>>

\* The number a word below 2^31 stands for.
WNat(a) == a[1] + Limb * a[2]

(***************************************************************************)
(* The constants of package sys that the file reads.                       *)
(***************************************************************************)
MAP_FIXED == 16
MAP_ANONYMOUS == 32
MREMAP_MAYMOVE == 1
MREMAP_FIXED == 2
S_IFREG == 32768
S_IFIFO == 4096
S_IFSOCK == 49152
S_IFBLK == 24576
S_IFCHR == 8192
SYSLOG_ACTION_CONSOLE_OFF == 6
SYSLOG_ACTION_CONSOLE_ON == 7
SYSLOG_ACTION_SIZE_UNREAD == 9
PTRACE_TRACEME == 0
FIFREEZE == <<22647, 49156, 0, 0>>
FITHAW == <<22648, 49156, 0, 0>>
InvalidFD == WMax

maxPages == 4096

(***************************************************************************)
(* Types (sys.Type) and argument nodes (Arg).                              *)
(***************************************************************************)
DirIn == "in"
DirOut == "out"
DirInOut == "inout"

ArgConst == "ArgConst"
ArgResult == "ArgResult"
ArgPointer == "ArgPointer"
ArgPageSize == "ArgPageSize"
ArgData == "ArgData"
ArgGroup == "ArgGroup"
ArgUnion == "ArgUnion"
ArgReturn == "ArgReturn"

BufferBlob == "blob"
BufferString == "string"
BufferFilename == "filename"

\* A type: its class (the Go type of the descriptor), field name, direction,
\* static size, and the class-specific fields (zero values when unused).
Typ(cls, name, dir, size) ==
    [cls |-> cls, name |-> name, dir |-> dir, size |-> size,
     desc |-> "", bufKind |-> "", buf |-> "", byteSize |-> 0,
     optional |-> FALSE, isPad |-> FALSE]

IntType(name, size) == Typ("IntType", name, DirIn, size)
FlagsType(name, size) == Typ("FlagsType", name, DirIn, size)
PadType(size) == [Typ("ConstType", "pad", DirIn, size) EXCEPT !.isPad = TRUE]
ResourceType(name, desc, dir) == [Typ("ResourceType", name, dir, 4) EXCEPT !.desc = desc]
BufferType(name, kind, dir) == [Typ("BufferType", name, dir, 0) EXCEPT !.bufKind = kind]
LenType(name, buf, byteSize, size) ==
    [Typ("LenType", name, DirIn, size) EXCEPT !.buf = buf, !.byteSize = byteSize]
VmaType(name) == Typ("VmaType", name, DirIn, 8)
ArrayType(name) == Typ("ArrayType", name, DirIn, 0)
PtrType(name, dir, optional) == [Typ("PtrType", name, dir, 8) EXCEPT !.optional = optional]
StructType(name) == Typ("StructType", name, DirIn, 0)
UnionType(name) == Typ("UnionType", name, DirIn, 0)

\* The nil *Arg.
NoArg == [Kind |-> "nil"]

IsNil(arg) == arg.Kind = "nil"

\* A node with the zero value in every field but Type and Kind.
MkArg(t, kind) ==
    [Type |-> t, Kind |-> kind, Val |-> W(0), AddrPage |-> W(0), AddrOffset |-> 0,
     AddrPagesNum |-> W(0), Data |-> <<>>, Inner |-> <<>>, Res |-> NoArg,
     Option |-> NoArg]

constArg(t, v) == [MkArg(t, ArgConst) EXCEPT !.Val = v]
resultArg(t) == MkArg(t, ArgResult)
returnArg(t) == MkArg(t, ArgReturn)
dataArg(t, data) == [MkArg(t, ArgData) EXCEPT !.Data = data]
pointerArg(t, page, off, obj) ==
    [MkArg(t, ArgPointer) EXCEPT !.AddrPage = page, !.AddrOffset = off, !.Res = obj]
pageSizeArg(t, npages, off) ==
    [MkArg(t, ArgPageSize) EXCEPT !.AddrPage = npages, !.AddrOffset = off]
groupArg(t, inner) == [MkArg(t, ArgGroup) EXCEPT !.Inner = inner]
unionArg(t, opt) == [MkArg(t, ArgUnion) EXCEPT !.Option = opt]
vmaArg(t, page, npages) ==
    [MkArg(t, ArgPointer) EXCEPT !.AddrPage = page, !.AddrPagesNum = npages]

MkCall(name, callName, args, ret) ==
    [Name |-> name, CallName |-> callName, Args |-> args, Ret |-> ret]

(***************************************************************************)
(* Arg.Size and Arg.InnerArg (prog.go).                                    *)
(***************************************************************************)
RECURSIVE Size(_)
RECURSIVE SumSizes(_, _)
SumSizes(args, i) ==
    IF i > Len(args) THEN 0 ELSE Size(args[i]) + SumSizes(args, i + 1)

Size(arg) ==
    CASE arg.Type.cls = "BufferType" -> Len(arg.Data)
      [] arg.Type.cls = "StructType" -> SumSizes(arg.Inner, 1)
      [] arg.Type.cls = "ArrayType" -> SumSizes(arg.Inner, 1)
      [] arg.Type.cls = "UnionType" -> Size(arg.Option)
      [] OTHER -> arg.Type.size

RECURSIVE InnerArg(_)
InnerArg(arg) ==
    IF arg.Type.cls = "PtrType"
    THEN IF IsNil(arg.Res) THEN NoArg ELSE InnerArg(arg.Res)
    ELSE arg

(***************************************************************************)
(* foreachSubargImpl / foreachArgArray.  A node is named by its path:      *)
(* <<call, i>> is Args[i] of the call (i = 0 is Ret), and below a node k   *)
(* >= 1 is Inner[k], 0 is Res and -1 is Option.  A visit is what the       *)
(* callback receives: the node, the base pointer and the parent slice,     *)
(* the last two by the path of the node that owns them (<<>> for nil).     *)
(***************************************************************************)
RECURSIVE rec(_, _, _, _)
RECURSIVE recInner(_, _, _, _, _)

recInner(arg, id, base, parent, i) ==
    IF i > Len(arg.Inner) THEN <<>>
    ELSE LET parent1 == IF arg.Type.cls = "StructType" THEN id ELSE parent
         IN  rec(arg.Inner[i], Append(id, i), base, parent1)
               \o recInner(arg, id, base, parent, i + 1)

rec(arg, id, base, parent) ==
    <<[id |-> id, arg |-> arg, base |-> base, parent |-> parent]>>
      \o recInner(arg, id, base, parent, 1)
      \o (IF arg.Kind = ArgPointer /\ ~IsNil(arg.Res)
          THEN rec(arg.Res, Append(id, 0), id, parent) ELSE <<>>)
      \o (IF arg.Kind = ArgUnion
          THEN rec(arg.Option, Append(id, -1), base, parent) ELSE <<>>)

foreachSubargImpl(arg, id, parent) == rec(arg, id, <<>>, parent)

RECURSIVE foreachArgs(_, _, _)
foreachArgs(args, cid, i) ==
    IF i > Len(args) THEN <<>>
    ELSE foreachSubargImpl(args[i], Append(cid, i), cid) \o foreachArgs(args, cid, i + 1)

\* The visits of foreachArgArray(&c.Args, ret, f), in the order f is called.
foreachArgArray(args, ret, cid) ==
    foreachArgs(args, cid, 1)
      \o (IF ~IsNil(ret) THEN foreachSubargImpl(ret, Append(cid, 0), <<>>) ELSE <<>>)

\* foreachArg(c, f), on c.Args.
foreachArg(args, cid) == foreachArgArray(args, NoArg, cid)

(***************************************************************************)
(* The analysis state (type state, newState).  pages holds the indices i   *)
(* with s.pages[i] = true; resources is a map: a function whose domain is  *)
(* the set of keys appended to so far, each mapped to the paths of its     *)
(* nodes.                                                                  *)
(***************************************************************************)
newState ==
    [files |-> {}, resources |-> [k \in {} |-> <<>>], strings |-> {},
     pages |-> {}]

\* m[k] of a Go map of slices: the nil slice when k is no key of m.
mapGet(m, k) == IF k \in DOMAIN m THEN m[k] ELSE <<>>

\* m[k] = append(m[k], id): the key is created when it is missing.
mapAppend(m, k, id) ==
    [x \in DOMAIN m \cup {k} |-> IF x = k THEN Append(mapGet(m, k), id) ELSE m[x]]

RECURSIVE mapAppendAll(_, _, _, _)
mapAppendAll(m, k, ids, i) ==
    IF i > Len(ids) THEN m ELSE mapAppendAll(mapAppend(m, k, ids[i]), k, ids, i + 1)

NoFault == ""

\* Go's 0-based indexing of c.Args.
At(args, i) == args[i + 1]

\* Variant: only output resources are taken (in-out ones are missed).
isProducerMissesInOut(typ) == typ.dir = DirOut

\* A resource node adds an available resource: arg.Type.Dir() != sys.DirIn.
isProducer(typ) == typ.dir # DirIn

\* Variant: the direction of the buffer is not looked at.
isInputDataAnyDir(arg) == arg.Kind = ArgData /\ Len(arg.Data) # 0

\* A buffer node whose payload is recorded: not an output buffer, a data
\* node, a non-empty payload.
isInputData(arg) ==
    arg.Type.dir # DirOut /\ arg.Kind = ArgData /\ Len(arg.Data) # 0

\* The callback of state.analyze, applied to one visited node.
analyzeArg(st, v) ==
    LET arg == v.arg
        typ == arg.Type
    IN  CASE typ.cls = "ResourceType" ->
               IF isProducer(typ)
               THEN [st EXCEPT !.resources = mapAppend(@, typ.desc, v.id)]
               ELSE st
          [] typ.cls = "BufferType" ->
               IF isInputData(arg)
               THEN CASE typ.bufKind = BufferString ->
                           [st EXCEPT !.strings = @ \cup {arg.Data}]
                      [] typ.bufKind = BufferFilename ->
                           [st EXCEPT !.files = @ \cup {arg.Data}]
                      [] OTHER -> st
               ELSE st
          [] OTHER -> st

RECURSIVE analyzeArgs(_, _, _)
analyzeArgs(st, visits, i) ==
    IF i > Len(visits) THEN st
    ELSE analyzeArgs(analyzeArg(st, visits[i]), visits, i + 1)

\* n of addressable: size.AddrPage, incremented (on uintptr) for a partial page.
pageCount(size) ==
    IF size.AddrOffset # 0 THEN WAdd(size.AddrPage, W(1)) ELSE size.AddrPage

\* The bound check of addressable: addr.AddrPage+n > uintptr(len(s.pages)).
outOfBounds(addr, n) == WGt(WAdd(addr.AddrPage, n), W(maxPages))

\* The indices the loop of addressable stores to before it ends or the index
\* leaves the array: s.pages[addr.AddrPage+i] for i = 0, 1, ... < n.
pagesWritten(addr, n) ==
    IF n = W(0) \/ WGt(addr.AddrPage, W(maxPages - 1)) THEN {}
    ELSE LET a == WNat(addr.AddrPage)
             room == maxPages - a
             k == IF WGt(n, W(room)) THEN room ELSE WNat(n)
         IN  a .. (a + k - 1)

\* Whether that loop indexes s.pages out of range (a run-time panic).
indexPanics(addr, n) ==
    /\ n # W(0)
    /\ \/ WGt(addr.AddrPage, W(maxPages - 1))
       \/ WGt(n, W(maxPages - WNat(addr.AddrPage)))

addressable(st, addr, size, ok) ==
    IF addr.Kind # ArgPointer \/ size.Kind # ArgPageSize
    THEN [st |-> st, fault |-> "mmap/munmap/mremap args are not pages"]
    ELSE LET n == pageCount(size)
         IN  IF outOfBounds(addr, n)
             THEN [st |-> st, fault |-> "address is out of bounds"]
             ELSE [st |-> [st EXCEPT !.pages = IF ok THEN @ \cup pagesWritten(addr, n)
                                                    ELSE @ \ pagesWritten(addr, n)],
                   fault |-> IF indexPanics(addr, n)
                             THEN "index out of range" ELSE NoFault]

\* The filter of the mmap case: TRUE when the call is left out of the bitmap.
mmapSkipped(c) ==
    LET length == At(c.Args, 1)
        flags == At(c.Args, 4)
        fd == At(c.Args, 3)
    IN  \/ length.AddrPage = W(0) /\ length.AddrOffset = 0
        \/ /\ ~WHasBit(flags.Val, MAP_ANONYMOUS)
           /\ fd.Kind = ArgConst
           /\ fd.Val = InvalidFD

\* The io_submit case: the pointers of the array that point to an iocb.
RECURSIVE iocbPtrs(_, _, _)
iocbPtrs(arr, id, i) ==
    IF i > Len(arr.Inner) THEN <<>>
    ELSE LET ptr == arr.Inner[i]
         IN  (IF ptr.Kind = ArgPointer /\ ~IsNil(ptr.Res) /\ ptr.Res.Type.name = "iocb"
              THEN <<Append(id, i)>> ELSE <<>>) \o iocbPtrs(arr, id, i + 1)

\* state.analyze(c), c being the call numbered cid.  addressed tells whether
\* addressable was called.
stateAnalyze(st, c, cid) ==
    LET s1 == analyzeArgs(st, foreachArgArray(c.Args, c.Ret, <<cid>>), 1)
        plain == [st |-> s1, fault |-> NoFault]
    IN  CASE c.Name = "mmap" ->
               IF mmapSkipped(c) THEN plain @@ [addressed |-> FALSE]
               ELSE addressable(s1, At(c.Args, 0), At(c.Args, 1), TRUE)
                      @@ [addressed |-> TRUE]
          [] c.Name = "munmap" ->
               addressable(s1, At(c.Args, 0), At(c.Args, 1), FALSE)
                 @@ [addressed |-> TRUE]
          [] c.Name = "mremap" ->
               addressable(s1, At(c.Args, 4), At(c.Args, 2), TRUE)
                 @@ [addressed |-> TRUE]
          [] c.Name = "io_submit" ->
               LET arr == At(c.Args, 2).Res
               IN  IF ~IsNil(arr)
                   THEN [st |-> [s1 EXCEPT !.resources =
                                     mapAppendAll(@, "iocbptr",
                                                  iocbPtrs(arr, <<cid, 3, 0>>, 1), 1)],
                         fault |-> NoFault, addressed |-> FALSE]
                   ELSE plain @@ [addressed |-> FALSE]
          [] OTHER -> plain @@ [addressed |-> FALSE]

(***************************************************************************)
(* Size-field resolution: generateSize, assignSizes, assignSizesCall.      *)
(***************************************************************************)
\* Variant: the declared stride is ignored.
arraySizeCountsOnly(arg, lenType) == constArg(lenType, W(Len(arg.Inner)))

\* The ArrayType case of generateSize.
arraySize(arg, lenType) ==
    IF lenType.byteSize # 0
    THEN constArg(lenType, W(Size(arg) \div lenType.byteSize))
    ELSE constArg(lenType, W(Len(arg.Inner)))

generateSize(arg, lenType) ==
    IF IsNil(arg) THEN constArg(lenType, W(0))
    ELSE CASE arg.Type.cls = "VmaType" -> pageSizeArg(lenType, arg.AddrPagesNum, 0)
           [] arg.Type.cls = "ArrayType" -> arraySize(arg, lenType)
           [] OTHER -> constArg(lenType, W(Size(arg)))

\* sys.IsPad.
IsPad(t) == t.cls = "ConstType" /\ t.isPad

\* argsMap[name] of assignSizes: the index of the last field of that name
\* that is no padding, 0 when the map has no such key.
argsMapIndex(args, name) ==
    LET hits == {i \in 1..Len(args) : ~IsPad(args[i].Type) /\ args[i].Type.name = name}
    IN  IF hits = {} THEN 0 ELSE CHOOSE i \in hits : \A j \in hits : j <= i

\* Variant: padding is skipped before its size is added.
RECURSIVE sumNoPad(_, _)
sumNoPad(args, i) ==
    IF i > Len(args) THEN 0
    ELSE (IF IsPad(args[i].Type) THEN 0 ELSE Size(args[i])) + sumNoPad(args, i + 1)
parentSizeSkipsPad(args) == sumNoPad(args, 1)

\* var parentSize of assignSizes: the sum of arg.Size() over all of args,
\* padding included (the size is added before the IsPad test).
parentSizeOf(args) == SumSizes(args, 1)

\* Variant: arg.Val += parentSize.
parentValAccumulates(arg, parentSize) == WAdd(arg.Val, W(parentSize))

\* arg.Val = parentSize.
parentVal(arg, parentSize) == W(parentSize)

\* arg with the node arg.InnerArg() replaced by leaf (a store through the
\* pointer InnerArg returns).
RECURSIVE SetInnerArg(_, _)
SetInnerArg(arg, leaf) ==
    IF arg.Type.cls = "PtrType"
    THEN [arg EXCEPT !.Res = SetInnerArg(arg.Res, leaf)]
    ELSE leaf

\* One iteration of the second loop of assignSizes, on field i.
assignSizeAt(args, i, parentSize) ==
    LET arg == InnerArg(args[i])
    IN  IF IsNil(arg) \/ arg.Type.cls # "LenType"
        THEN [args |-> args, fault |-> NoFault]
        ELSE IF arg.Type.buf = "parent"
        THEN [args |-> [args EXCEPT ![i] = SetInnerArg(@, [arg EXCEPT !.Val = parentVal(arg, parentSize)])],
              fault |-> NoFault]
        ELSE LET b == argsMapIndex(args, arg.Type.buf)
             IN  IF b = 0
                 THEN [args |-> args, fault |-> "len field references non existent field"]
                 ELSE [args |-> [args EXCEPT ![i] =
                                   SetInnerArg(@, generateSize(InnerArg(args[b]), arg.Type))],
                       fault |-> NoFault]

RECURSIVE assignSizesFrom(_, _, _)
assignSizesFrom(args, i, parentSize) ==
    IF i > Len(args) THEN [args |-> args, fault |-> NoFault]
    ELSE LET r == assignSizeAt(args, i, parentSize)
         IN  IF r.fault # NoFault THEN r
             ELSE assignSizesFrom(r.args, i + 1, parentSize)

\* assignSizes(args): the fields after the call, and the panic if it panics.
assignSizes(args) == assignSizesFrom(args, 1, parentSizeOf(args))

\* The walk of assignSizesCall below one node: the callback (assignSizes on
\* a struct's Inner) runs on the node before the walk goes into it.
RECURSIVE fixRec(_)
RECURSIVE fixInner(_, _)
fixInner(arg, i) ==
    IF i > Len(arg.Inner) THEN [arg |-> arg, fault |-> NoFault]
    ELSE LET r == fixRec(arg.Inner[i])
             a1 == [arg EXCEPT !.Inner[i] = r.arg]
         IN  IF r.fault # NoFault THEN [arg |-> a1, fault |-> r.fault]
             ELSE fixInner(a1, i + 1)

fixRec(arg) ==
    LET r0 == IF arg.Type.cls = "StructType" THEN assignSizes(arg.Inner)
              ELSE [args |-> arg.Inner, fault |-> NoFault]
        a0 == [arg EXCEPT !.Inner = r0.args]
        r1 == fixInner(a0, 1)
        r2 == IF r1.arg.Kind = ArgPointer /\ ~IsNil(r1.arg.Res)
              THEN fixRec(r1.arg.Res)
              ELSE [arg |-> r1.arg.Res, fault |-> NoFault]
        a2 == [r1.arg EXCEPT !.Res = r2.arg]
        r3 == IF a2.Kind = ArgUnion THEN fixRec(a2.Option)
              ELSE [arg |-> a2.Option, fault |-> NoFault]
    IN  IF r0.fault # NoFault THEN [arg |-> a0, fault |-> r0.fault]
        ELSE IF r1.fault # NoFault THEN r1
        ELSE IF r2.fault # NoFault THEN [arg |-> a2, fault |-> r2.fault]
        ELSE [arg |-> [a2 EXCEPT !.Option = r3.arg], fault |-> r3.fault]

RECURSIVE fixArgs(_, _)
fixArgs(args, i) ==
    IF i > Len(args) THEN [args |-> args, fault |-> NoFault]
    ELSE LET r == fixRec(args[i])
             a1 == [args EXCEPT ![i] = r.arg]
         IN  IF r.fault # NoFault THEN [args |-> a1, fault |-> r.fault]
             ELSE fixArgs(a1, i + 1)

\* assignSizesCall(c), on c.Args.
assignSizesCall(args) ==
    LET r == assignSizes(args)
    IN  IF r.fault # NoFault THEN r ELSE fixArgs(r.args, 1)

(***************************************************************************)
(* sanitizeCall.                                                           *)
(***************************************************************************)
SetVal(c, i, v) == [c EXCEPT !.Args[i + 1].Val = v]

okCall(c) == [call |-> c, fault |-> NoFault]
panicCall(c, msg) == [call |-> c, fault |-> msg]

\* Variant: mknodat is not told apart from mknod.
modeIndexAlwaysOne(c) == 1

\* The index of the mode argument of mknod and mknodat.
modeIndex(c) == IF c.CallName = "mknodat" THEN 2 ELSE 1

\* Variant: the code is compared without % 128.
reservedExitCodeNoMod(v) == v = W(67) \/ v = W(68)

\* The exit codes reserved by the executor.
reservedExitCode(v) == WModSmall(v, 128) = 67 \/ WModSmall(v, 128) = 68

sanitizeCall(c) ==
    CASE c.CallName = "mmap" ->
           IF At(c.Args, 0).Kind # ArgPointer
           THEN panicCall(c, "mmap address is not ArgPointer")
           ELSE IF At(c.Args, 1).Kind # ArgPageSize
           THEN panicCall(c, "mmap length is not ArgPageSize")
           ELSE IF At(c.Args, 3).Kind # ArgConst
           THEN panicCall(c, "mmap flag arg is not const")
           ELSE okCall(SetVal(c, 3, WSetBit(At(c.Args, 3).Val, MAP_FIXED)))
      [] c.CallName = "mremap" ->
           IF At(c.Args, 3).Kind # ArgConst
           THEN panicCall(c, "mremap flag arg is not const")
           ELSE IF WHasBit(At(c.Args, 3).Val, MREMAP_MAYMOVE)
           THEN okCall(SetVal(c, 3, WSetBit(At(c.Args, 3).Val, MREMAP_FIXED)))
           ELSE okCall(c)
      [] c.CallName \in {"mknod", "mknodat"} ->
           LET mode == At(c.Args, modeIndex(c))
           IN  IF mode.Kind # ArgConst
               THEN panicCall(c, "mknod mode is not const")
               ELSE IF mode.Val # W(S_IFREG) /\ mode.Val # W(S_IFIFO)
                       /\ mode.Val # W(S_IFSOCK)
               THEN okCall(SetVal(c, modeIndex(c), W(S_IFIFO)))
               ELSE okCall(c)
      [] c.CallName = "syslog" ->
           IF At(c.Args, 0).Val = W(SYSLOG_ACTION_CONSOLE_OFF)
              \/ At(c.Args, 0).Val = W(SYSLOG_ACTION_CONSOLE_ON)
           THEN okCall(SetVal(c, 0, W(SYSLOG_ACTION_SIZE_UNREAD)))
           ELSE okCall(c)
      [] c.CallName = "ioctl" ->
           IF WLow32(At(c.Args, 1).Val) = FIFREEZE
           THEN okCall(SetVal(c, 1, FITHAW))
           ELSE okCall(c)
      [] c.CallName = "ptrace" ->
           IF At(c.Args, 0).Val = W(PTRACE_TRACEME)
           THEN okCall(SetVal(c, 0, WMax))
           ELSE okCall(c)
      [] c.CallName \in {"exit", "exit_group"} ->
           IF reservedExitCode(At(c.Args, 0).Val)
           THEN okCall(SetVal(c, 0, W(1)))
           ELSE okCall(c)
      [] OTHER -> okCall(c)

(***************************************************************************)
(* State.                                                                  *)
(*   prog, target, pos, s, fault, returned, hist: one run of analyze(ct,   *)
(*     p, c): p.Calls, the index of c in it (Len + 1 when c is not in p),  *)
(*     the index of c1 in the loop, the state s, the panic raised if any,  *)
(*     whether analyze has returned, and the last call given to            *)
(*     s.analyze with the page bitmap before it.                           *)
(*   szArgs, szPrev, szOp, szRuns, szFault: a field sequence under size    *)
(*     resolution, its value before the last step, the last resolution     *)
(*     run on it ("" once a field changed), the number of times that       *)
(*     resolution ran in a row, and the panic if any.                      *)
(*   sanCall, sanPrev, sanRuns, sanFault: a call under sanitizeCall.       *)
(***************************************************************************)
VARIABLES prog, target, pos, s, fault, returned, hist,
          szArgs, szPrev, szOp, szRuns, szFault,
          sanCall, sanPrev, sanRuns, sanFault

anVars == <<prog, target, pos, s, fault, returned, hist>>
szVars == <<szArgs, szPrev, szOp, szRuns, szFault>>
sanVars == <<sanCall, sanPrev, sanRuns, sanFault>>
vars == <<anVars, szVars, sanVars>>

NoCall == MkCall("", "", <<>>, NoArg)

NoHist == [call |-> NoCall, addressed |-> FALSE, pages |-> {}]

AnIdle ==
    /\ prog = <<>> /\ target = 1 /\ pos = 1 /\ s = newState
    /\ fault = NoFault /\ returned = FALSE /\ hist = NoHist

SzIdle ==
    szArgs = <<>> /\ szPrev = <<>> /\ szOp = "" /\ szRuns = 0 /\ szFault = NoFault

SanIdle == sanCall = NoCall /\ sanPrev = NoCall /\ sanRuns = 0 /\ sanFault = NoFault

(***************************************************************************)
(* Calls the generator can hand to the analysis.                           *)
(***************************************************************************)
FdIn == ResourceType("fd", "fd", DirIn)
FdOut(name) == ResourceType(name, "fd", DirOut)
PidInOut == ResourceType("pid", "pid", DirInOut)
Ptr(name, obj) == pointerArg(PtrType(name, DirIn, FALSE), W(0), 0, obj)
Flags(v) == constArg(FlagsType("flags", 8), v)
Pages(npages, off) == pageSizeArg(LenType("len", "addr", 0, 8), npages, off)
Vma(page) == vmaArg(VmaType("addr"), page, W(1))
InvalidFDArg == constArg(FdIn, InvalidFD)

\* open(file filename[in], flags) fd
cOpen ==
    MkCall("open", "open",
           <<Ptr("file", dataArg(BufferType("name", BufferFilename, DirIn), <<1>>)),
             Flags(W(0))>>,
           returnArg(FdOut("ret")))

\* write(fd, buf string[in])
cWrite ==
    MkCall("write", "write",
           <<resultArg(FdIn),
             Ptr("buf", dataArg(BufferType("data", BufferString, DirIn), <<2, 3>>))>>,
           NoArg)

\* getcwd(buf string[out], path filename[out]): buffers the call fills.
cGetcwd ==
    MkCall("getcwd", "getcwd",
           <<Ptr("buf", dataArg(BufferType("data", BufferString, DirOut), <<7>>)),
             Ptr("path", dataArg(BufferType("name", BufferFilename, DirOut), <<8>>))>>,
           NoArg)

\* socket(domain) sock
cSocket ==
    MkCall("socket", "socket", <<Flags(W(2))>>,
           returnArg(ResourceType("ret", "sock", DirOut)))

\* pipe(pipefd ptr[out, struct {rfd fd, wfd fd}])
cPipe ==
    MkCall("pipe", "pipe",
           <<Ptr("pipefd", groupArg(StructType("pipefd"),
                                    <<resultArg(FdOut("rfd")), resultArg(FdOut("wfd"))>>))>>,
           NoArg)

\* A call with an in-out resource below a union, an in-out filename, an
\* empty input string and an input blob.
cFcntl ==
    MkCall("fcntl$setown", "fcntl",
           <<resultArg(FdIn),
             unionArg(UnionType("arg"), resultArg(PidInOut)),
             Ptr("path", dataArg(BufferType("name", BufferFilename, DirInOut), <<4>>)),
             Ptr("s", dataArg(BufferType("data", BufferString, DirIn), <<>>)),
             Ptr("b", dataArg(BufferType("blob", BufferBlob, DirIn), <<5>>))>>,
           NoArg)

\* io_submit(ctx, nr, iocbpp ptr[in, array[ptr[in, iocb]]])
cIoSubmit ==
    MkCall("io_submit", "io_submit",
           <<resultArg(FdIn),
             constArg(LenType("nr", "iocbpp", 0, 8), W(3)),
             Ptr("iocbpp",
                 groupArg(ArrayType("iocbpp"),
                          <<Ptr("p", groupArg(StructType("iocb"),
                                              <<resultArg(ResourceType("fd", "fd", DirInOut))>>)),
                            Ptr("p", NoArg),
                            Ptr("p", groupArg(StructType("other"), <<Flags(W(1))>>))>>))>>,
           NoArg)

\* mmap(addr, len, prot, flags, fd, offset)
Mmap(addr, len, flags, fd) ==
    MkCall("mmap", "mmap",
           <<addr, len, Flags(W(3)), Flags(flags), fd, constArg(IntType("offset", 8), W(0))>>,
           NoArg)

\* munmap(addr, len)
Munmap(addr, len) == MkCall("munmap", "munmap", <<addr, len>>, NoArg)

\* mremap(addr, len, newlen, flags, newaddr)
Mremap(addr, len, newlen, flags, newaddr) ==
    MkCall("mremap", "mremap", <<addr, len, newlen, Flags(flags), newaddr>>, NoArg)

AnalysisPool ==
    {cOpen, cWrite, cGetcwd, cSocket, cPipe, cFcntl, cIoSubmit,
     Mmap(Vma(W(1)), Pages(W(2), 0), W(MAP_ANONYMOUS), InvalidFDArg),
     Munmap(Vma(W(2)), Pages(W(1), 0))}

MaxCalls == 3

Programs == UNION {[1..n -> AnalysisPool] : n \in 1..MaxCalls}

(***************************************************************************)
(* analyze(ct, p, c): s := newState(ct), then s.analyze(c1) for the calls  *)
(* of p before c.                                                          *)
(***************************************************************************)
InitAnalyze ==
    /\ prog \in Programs
    /\ target \in 1..(Len(prog) + 1)
    /\ pos = 1
    /\ s = newState
    /\ fault = NoFault
    /\ returned = FALSE
    /\ hist = NoHist
    /\ SzIdle /\ SanIdle

\* The loop condition of analyze: there is a next call c1 and it is not c.
loopContinues(p, c, i) == i <= Len(p) /\ i # c

\* One iteration of the loop of analyze: s.analyze(c1).
AnalyzeCall ==
    /\ ~returned /\ fault = NoFault
    /\ loopContinues(prog, target, pos)
    /\ LET r == stateAnalyze(s, prog[pos], pos)
       IN  /\ s' = r.st
           /\ fault' = r.fault
           /\ hist' = [call |-> prog[pos], addressed |-> r.addressed, pages |-> s.pages]
    /\ pos' = pos + 1
    /\ UNCHANGED <<prog, target, returned, szVars, sanVars>>

\* The loop ends (c1 == c, or no call is left) and analyze returns s.
AnalyzeReturn ==
    /\ ~returned /\ fault = NoFault
    /\ ~loopContinues(prog, target, pos)
    /\ returned' = TRUE
    /\ UNCHANGED <<prog, target, pos, s, fault, hist, szVars, sanVars>>

NextAnalyze == AnalyzeCall \/ AnalyzeReturn

SpecAnalyze == InitAnalyze /\ [][NextAnalyze]_vars

(***************************************************************************)
(* The page bitmap under a sequence of s.analyze(c) calls, each call given *)
(* as generated or after sanitizeCall.  The calls come from the caller one *)
(* at a time (pos counts them); they are not kept in prog.                 *)
(***************************************************************************)
AddrChoices == {W(0), W(1), W(maxPages - 1), W(maxPages)}

SizeChoices == {<<W(0), 0>>, <<W(1), 0>>, <<W(1), 1>>, <<WMax, 0>>, <<WMax, 1>>}

MmapFlagChoices == {W(2), W(2 + MAP_ANONYMOUS), WMax}

FdChoices == {InvalidFDArg, resultArg(FdIn)}

\* Every address and size with an anonymous mmap, a munmap and a moving
\* mremap; every flag word and descriptor with an mmap of one page.
MemPool ==
    {Mmap(Vma(a), Pages(n[1], n[2]), W(2 + MAP_ANONYMOUS), InvalidFDArg) :
        a \in AddrChoices, n \in SizeChoices}
    \cup {Mmap(Vma(W(1)), Pages(W(1), 0), f, fd) : f \in MmapFlagChoices, fd \in FdChoices}
    \cup {Munmap(Vma(a), Pages(n[1], n[2])) : a \in AddrChoices, n \in SizeChoices}
    \cup {Mremap(Vma(W(0)), Pages(W(1), 0), Pages(n[1], n[2]), W(MREMAP_MAYMOVE), Vma(a)) :
            a \in AddrChoices, n \in SizeChoices}
    \cup {Mremap(Vma(W(0)), Pages(W(1), 0), Pages(W(1), 0), W(0), Vma(W(1))),
          Munmap(Flags(W(0)), Pages(W(1), 0))}

MaxObserved == 3

InitPages == AnIdle /\ SzIdle /\ SanIdle

\* s.analyze(c) on the next call.
Observe(c) ==
    LET r == stateAnalyze(s, c, pos)
    IN  /\ s' = r.st
        /\ fault' = r.fault
        /\ hist' = [call |-> c, addressed |-> r.addressed, pages |-> s.pages]
        /\ pos' = pos + 1
        /\ UNCHANGED <<prog, target, returned, szVars, sanVars>>

ObserveCall ==
    /\ fault = NoFault /\ pos <= MaxObserved
    /\ \E c \in MemPool : Observe(c)

\* sanitizeCall(c), then s.analyze(c).
ObserveSanitized ==
    /\ fault = NoFault /\ pos <= MaxObserved
    /\ \E c \in MemPool :
          /\ sanitizeCall(c).fault = NoFault
          /\ Observe(sanitizeCall(c).call)

NextPages == ObserveCall \/ ObserveSanitized

SpecPages == InitPages /\ [][NextPages]_vars

(***************************************************************************)
(* Properties of the analysis.                                             *)
(***************************************************************************)
\* The visits of the calls 1..n of p, in program order.
RECURSIVE VisitsUpTo(_, _)
VisitsUpTo(p, n) ==
    IF n = 0 THEN <<>>
    ELSE VisitsUpTo(p, n - 1) \o foreachArgArray(p[n].Args, p[n].Ret, <<n>>)

Range(seq) == {seq[i] : i \in 1..Len(seq)}

Ids(visits) == [i \in 1..Len(visits) |-> visits[i].id]

\* The resource-typed nodes of kind k with direction out or in-out among the
\* calls before index c of p, in program and traversal order.
ProducersBefore(p, c, k) ==
    LET Produces(v) ==
            /\ v.arg.Type.cls = "ResourceType"
            /\ v.arg.Type.desc = k
            /\ v.arg.Type.dir \in {DirOut, DirInOut}
    IN  Ids(SelectSeq(VisitsUpTo(p, c - 1), Produces))

\* The pointer elements of the control-block array (argument 2) of the
\* io_submit calls before index c of p whose pointee is an iocb.
IocbPointersBefore(p, c) ==
    LET Submitted(v) ==
            /\ Len(v.id) = 4
            /\ p[v.id[1]].Name = "io_submit"
            /\ v.id[2] = 3 /\ v.id[3] = 0
            /\ v.arg.Kind = ArgPointer
            /\ ~IsNil(v.arg.Res)
            /\ v.arg.Res.Type.name = "iocb"
    IN  Ids(SelectSeq(VisitsUpTo(p, c - 1), Submitted))

\* resources[k] as a reader of the state sees it.
ResourcesOf(k) == IF k \in DOMAIN s.resources THEN s.resources[k] ELSE <<>>

\* The kinds of the resource types of the program.
DeclaredKinds(p) ==
    {v.arg.Type.desc : v \in {w \in Range(VisitsUpTo(p, Len(p))) :
                                  w.arg.Type.cls = "ResourceType"}}

\* The keys the claim speaks of: every key of the map and every declared kind.
AllKeys == DOMAIN s.resources \cup DeclaredKinds(prog) \cup {"iocbptr"}

\* No node of c or of a call after c is in the state.
NothingFromTarget ==
    \A k \in DOMAIN s.resources :
       \A i \in 1..Len(s.resources[k]) : s.resources[k][i][1] < target

\* C1 as stated: when analyze(ct, P, c) has returned for a call c of P, then
\* for every key k of resources, resources[k] is exactly the sequence of the
\* resource-typed nodes of kind k with direction out or in-out of the calls
\* strictly before c, and no node of c or a later call is in it.
C1_ResourcesAreProducers ==
    (returned /\ target <= Len(prog)) =>
        /\ \A k \in AllKeys : ResourcesOf(k) = ProducersBefore(prog, target, k)
        /\ NothingFromTarget

\* C1 amended: the above holds for every declared resource kind, that is every
\* key but the engine's own "iocbptr"; resources["iocbptr"] is exactly the
\* sequence of the iocb pointer nodes of the io_submit calls strictly before
\* c, which are pointer nodes and not resource-typed; no node of c or of a later
\* call is in the state.
C1_ResourcesAreProducersOrIocbPtrs ==
    (returned /\ target <= Len(prog)) =>
        /\ \A k \in AllKeys \ {"iocbptr"} :
              ResourcesOf(k) = ProducersBefore(prog, target, k)
        /\ ResourcesOf("iocbptr") = IocbPointersBefore(prog, target)
        /\ NothingFromTarget

\* pipe; io_submit; open, analysed up to open: the two descriptors of pipe and
\* the in-out descriptor of the iocb are available, the one open returns is not.
C1_Witness ==
    /\ returned /\ target = 3 /\ Len(prog) = 3
    /\ prog[1] = cPipe /\ prog[2] = cIoSubmit /\ prog[3] = cOpen
    /\ DOMAIN s.resources = {"fd", "iocbptr"}
    /\ s.resources["fd"] = << <<1, 1, 0, 1>>, <<1, 1, 0, 2>>, <<2, 3, 0, 1, 0, 1>> >>
    /\ s.resources["iocbptr"] = << <<2, 3, 0, 1>> >>

\* The payloads of the buffer nodes of kind bk of the calls 1..n of p that are
\* data nodes with a non-empty payload and direction in or in-out.
InputPayloads(p, n, bk) ==
    {v.arg.Data : v \in {w \in Range(VisitsUpTo(p, n)) :
                            /\ w.arg.Type.cls = "BufferType"
                            /\ w.arg.Type.bufKind = bk
                            /\ w.arg.Kind = ArgData
                            /\ w.arg.Data # <<>>
                            /\ w.arg.Type.dir \in {DirIn, DirInOut}}}

\* C2: when analyze has returned, strings (files) holds the payload of every
\* string (filename) buffer node of the analysed calls that is a data node
\* with non-empty payload and direction in or in-out, and holds nothing else:
\* a buffer of direction out adds nothing to either set.
C2_InputBuffersRecorded ==
    returned =>
        /\ s.strings = InputPayloads(prog, pos - 1, BufferString)
        /\ s.files = InputPayloads(prog, pos - 1, BufferFilename)

\* write, getcwd and fcntl analysed: the input string and filenames are
\* recorded, the payloads of getcwd's output buffers are not.
C2_Witness ==
    /\ returned /\ pos = 4
    /\ {prog[1], prog[2], prog[3]} = {cWrite, cGetcwd, cFcntl}
    /\ s.strings = {<<2, 3>>}
    /\ s.files = {<<4>>}

(***************************************************************************)
(* Properties of the page bitmap.                                          *)
(***************************************************************************)
\* The arguments the last call hands to addressable.
HistAddr == IF hist.call.Name = "mremap" THEN At(hist.call.Args, 4) ELSE At(hist.call.Args, 0)
HistSize == IF hist.call.Name = "mremap" THEN At(hist.call.Args, 2) ELSE At(hist.call.Args, 1)

\* count: the size's page count, plus one if its byte offset is non-zero.
CountOf(size) == IF size.AddrOffset = 0 THEN size.AddrPage ELSE WAdd(size.AddrPage, W(1))

\* addr.page + count exceeds the page table, the sum taken in the integers.
ExceedsTable(addr, count) ==
    WCarry4(addr.AddrPage, count) = 1 \/ WGt(WAdd(addr.AddrPage, count), W(maxPages))

\* The pages [addr.page, addr.page + count) of a range inside the table.
Covered(addr, count) ==
    IF count = W(0) THEN {}
    ELSE WNat(addr.AddrPage) .. (WNat(addr.AddrPage) + WNat(count) - 1)

HistCovered == Covered(HistAddr, CountOf(HistSize))

Completed(name) == pos > 1 /\ fault = NoFault /\ hist.call.Name = name

\* C3: after observing an mmap call covering [p, p+n) every page of the range
\* reads mapped and the others are as before; after a munmap call every page
\* of its range reads unmapped and the others are as before.
C3_MmapMapsMunmapUnmaps ==
    /\ Completed("mmap") =>
          /\ HistCovered \subseteq s.pages
          /\ s.pages \ HistCovered = hist.pages \ HistCovered
    /\ Completed("munmap") =>
          /\ HistCovered \cap s.pages = {}
          /\ s.pages \ HistCovered = hist.pages \ HistCovered

\* C4: whenever addressable(addr, size, ok) ran on a pointer and a page size:
\* if addr.page + count exceeds the table, it aborted and no page entry was
\* changed; if addr.page + count is at most 4096, it did not abort.
C4_OutOfRangeAbortsUnchanged ==
    (pos > 1 /\ hist.addressed /\ HistAddr.Kind = ArgPointer /\ HistSize.Kind = ArgPageSize) =>
        IF ExceedsTable(HistAddr, CountOf(HistSize))
        THEN fault # NoFault /\ s.pages = hist.pages
        ELSE fault = NoFault

\* C10: a completed mmap call left the bitmap alone exactly when (a) its
\* length has page count 0 and offset 0, or (b) its flags argument (index 3)
\* lacks the anonymous bit and its descriptor argument (index 4) is the
\* constant InvalidFD; otherwise its range is mapped.
C10_SkipByFlagsAndDescriptor ==
    Completed("mmap") =>
        LET length == At(hist.call.Args, 1)
            flags == At(hist.call.Args, 3)
            fd == At(hist.call.Args, 4)
            skip == \/ length.AddrPage = W(0) /\ length.AddrOffset = 0
                    \/ /\ ~WHasBit(flags.Val, MAP_ANONYMOUS)
                       /\ fd.Kind = ArgConst /\ fd.Val = InvalidFD
        IN  IF skip THEN ~hist.addressed /\ s.pages = hist.pages
            ELSE hist.addressed /\ HistCovered \subseteq s.pages

(***************************************************************************)
(* Size resolution of a call's fields, between changes of the fields'      *)
(* sizes by the mutator.                                                   *)
(***************************************************************************)
MaxElems == 3
MaxData == 2
MaxRuns == 2

Elem(e) == constArg(IntType("elem", e), W(0))
Arr(e, k) == groupArg(ArrayType("arr"), [i \in 1..k |-> Elem(e)])
Buf(m) == dataArg(BufferType("buf", BufferBlob, DirIn), [i \in 1..m |-> 0])
\* A length field, holding a stale value.
LenF(name, buf, stride) == constArg(LenType(name, buf, stride, 4), W(99))
PadF == constArg(PadType(4), W(0))

\* struct {arr array[int]; n len[arr, stride 4]; n0 len[arr]; pad; total len[parent]}
FieldsA(e, k) ==
    <<Arr(e, k), LenF("n", "arr", 4), LenF("n0", "arr", 0), PadF, LenF("total", "parent", 0)>>

\* A buffer behind a pointer, a vma, an absent optional pointer, a length of
\* a length field and a length field behind a pointer.
FieldsB(m, k) ==
    <<Ptr("buf", Buf(m)), LenF("blen", "buf", 0),
      vmaArg(VmaType("v"), W(0), W(k)), LenF("vlen", "v", 0),
      pointerArg(PtrType("opt", DirIn, TRUE), W(0), 0, NoArg), LenF("olen", "opt", 0),
      LenF("ll", "blen", 0),
      Ptr("pl", LenF("n2", "buf", 0))>>

\* A struct with its own length fields, a length of that struct, and a
\* struct below a union.
FieldsC(e, k) ==
    <<groupArg(StructType("hdr"),
               <<constArg(IntType("a", 4), W(0)), PadF, LenF("hsize", "parent", 0),
                 Arr(e, k), LenF("cnt", "arr", e)>>),
      LenF("hlen", "hdr", 0),
      LenF("psize", "parent", 0),
      unionArg(UnionType("u"),
               groupArg(StructType("v1"),
                        <<constArg(IntType("x", 8), W(0)), LenF("sz", "parent", 0)>>))>>

SizePool ==
    {FieldsA(e, k) : e \in {4, 8}, k \in 0..MaxElems}
    \cup {FieldsB(m, k) : m \in 0..MaxData, k \in 0..MaxElems}
    \cup {FieldsC(e, k) : e \in {4, 8}, k \in 0..MaxElems}

InitSizes ==
    /\ szArgs \in SizePool
    /\ szPrev = szArgs
    /\ szOp = ""
    /\ szRuns = 0
    /\ szFault = NoFault
    /\ AnIdle /\ SanIdle

Resolve(op, r) ==
    /\ szFault = NoFault
    /\ szOp = op => szRuns < MaxRuns
    /\ szArgs' = r.args
    /\ szFault' = r.fault
    /\ szPrev' = szArgs
    /\ szOp' = op
    /\ szRuns' = IF szOp = op THEN szRuns + 1 ELSE 1
    /\ UNCHANGED <<anVars, sanVars>>

\* assignSizes(args) on the top-level fields.
SizeAssign == Resolve("assignSizes", assignSizes(szArgs))

\* assignSizesCall(c).
SizeAssignCall == Resolve("assignSizesCall", assignSizesCall(szArgs))

Changed(args) ==
    /\ szFault = NoFault
    /\ szArgs' = args
    /\ szPrev' = szArgs
    /\ szOp' = ""
    /\ szRuns' = 0
    /\ UNCHANGED <<szFault, anVars, sanVars>>

\* The mutator makes an array, a buffer or a vma one element, byte or page
\* longer.
GrowField ==
    \E i \in 1..Len(szArgs) :
       LET f == InnerArg(szArgs[i])
       IN  /\ ~IsNil(f)
           /\ \/ /\ f.Type.cls = "ArrayType"
                 /\ Len(f.Inner) \in 1..(MaxElems - 1)
                 /\ Changed([szArgs EXCEPT ![i] =
                       SetInnerArg(@, [f EXCEPT !.Inner = Append(@, f.Inner[1])])])
              \/ /\ f.Type.cls = "BufferType"
                 /\ Len(f.Data) < MaxData
                 /\ Changed([szArgs EXCEPT ![i] =
                       SetInnerArg(@, [f EXCEPT !.Data = Append(@, 0)])])
              \/ /\ f.Type.cls = "VmaType"
                 /\ WNat(f.AddrPagesNum) < MaxElems
                 /\ Changed([szArgs EXCEPT ![i] =
                       SetInnerArg(@, [f EXCEPT !.AddrPagesNum = WAdd(@, W(1))])])

\* The mutator makes an array or a buffer one element or byte shorter.
ShrinkField ==
    \E i \in 1..Len(szArgs) :
       LET f == InnerArg(szArgs[i])
       IN  /\ ~IsNil(f)
           /\ \/ /\ f.Type.cls = "ArrayType"
                 /\ Len(f.Inner) >= 1
                 /\ Changed([szArgs EXCEPT ![i] =
                       SetInnerArg(@, [f EXCEPT !.Inner = SubSeq(@, 1, Len(@) - 1)])])
              \/ /\ f.Type.cls = "BufferType"
                 /\ Len(f.Data) >= 1
                 /\ Changed([szArgs EXCEPT ![i] =
                       SetInnerArg(@, [f EXCEPT !.Data = SubSeq(@, 1, Len(@) - 1)])])

NextSizes == SizeAssign \/ SizeAssignCall \/ GrowField \/ ShrinkField

SpecSizes == InitSizes /\ [][NextSizes]_vars

(***************************************************************************)
(* Properties of size resolution.                                          *)
(***************************************************************************)
\* The field sequences the last resolution resolved: the top-level fields, and
\* for assignSizesCall the fields of every struct node of the call.
ResolvedSeqs ==
    IF szOp = "" \/ szFault # NoFault THEN {}
    ELSE {szArgs} \cup
         (IF szOp = "assignSizesCall"
          THEN {v.arg.Inner : v \in {w \in Range(foreachArg(szArgs, <<1>>)) :
                                        w.arg.Type.cls = "StructType"}}
          ELSE {})

\* The length fields of a sequence (behind pointers or not).
LenFields(fields) ==
    {InnerArg(fields[i]) : i \in {j \in 1..Len(fields) :
         /\ ~IsNil(InnerArg(fields[j]))
         /\ InnerArg(fields[j]).Type.cls = "LenType"}}

\* The array fields named name among the siblings.
ArraysNamed(fields, name) ==
    {InnerArg(fields[i]) : i \in {j \in 1..Len(fields) :
         /\ fields[j].Type.name = name
         /\ ~IsNil(InnerArg(fields[j]))
         /\ InnerArg(fields[j]).Type.cls = "ArrayType"}}

\* The sum of the byte sizes of all fields of a sequence.
TotalBytes(fields) == SumSizes(fields, 1)

\* C5: a resolution run a second time in a row, no field having changed in
\* between, leaves the fields as the first run left them.
C5_SecondResolutionChangesNothing ==
    (szRuns >= 2 /\ szFault = NoFault) => szArgs = szPrev

\* A second assignSizesCall on a call with a nested struct whose stale length
\* values the first run replaced.
C5_Witness ==
    /\ szRuns = 2 /\ szOp = "assignSizesCall" /\ szFault = NoFault
    /\ szArgs[1].Type.cls = "StructType"
    /\ szArgs[1].Inner[3].Val = W(24)
    /\ szArgs[2].Val = W(24)
    /\ szArgs[3].Val = W(44)

\* C6 as stated: after resolution a length field that targets a sibling array
\* holds the array's byte size divided by the stride S when S # 0, and the
\* array's byte size when S = 0.
C6_StrideZeroIsByteSize ==
    \A fields \in ResolvedSeqs : \A l \in LenFields(fields) :
       \A arr \in ArraysNamed(fields, l.Type.buf) :
          IF l.Type.byteSize # 0
          THEN l.Val = W(Size(arr) \div l.Type.byteSize)
          ELSE l.Val = W(Size(arr))

\* C6 amended: with S # 0 the value is the array's byte size divided by S; with
\* S = 0 it is the number of elements of the array (3 for an array of 3
\* elements occupying 12 bytes).
C6_StrideZeroIsElementCount ==
    \A fields \in ResolvedSeqs : \A l \in LenFields(fields) :
       \A arr \in ArraysNamed(fields, l.Type.buf) :
          IF l.Type.byteSize # 0
          THEN l.Val = W(Size(arr) \div l.Type.byteSize)
          ELSE l.Val = W(Len(arr.Inner))

\* An array of 3 elements occupying 12 bytes: 3 with stride 4, 3 with stride 0.
C6_Witness ==
    /\ szOp = "assignSizes" /\ szFault = NoFault
    /\ szArgs[1].Type.cls = "ArrayType"
    /\ Len(szArgs[1].Inner) = 3 /\ Size(szArgs[1]) = 12
    /\ szArgs[2].Type.byteSize = 4 /\ szArgs[2].Val = W(3)
    /\ szArgs[3].Type.byteSize = 0 /\ szArgs[3].Val = W(3)

\* C9: after resolution a length field whose target is "parent" holds the sum
\* of the byte sizes of all fields of its own sequence, padding and the length
\* field itself included.
C9_ParentIsTotalSize ==
    \A fields \in ResolvedSeqs : \A l \in LenFields(fields) :
       l.Type.buf = "parent" => l.Val = W(TotalBytes(fields))

\* 12 bytes of array, two length fields of 4, 4 of padding and the parent
\* length field's own 4 bytes: 28.
C9_Witness ==
    /\ szOp = "assignSizes" /\ szFault = NoFault
    /\ Len(szArgs) = 5
    /\ Size(szArgs[1]) = 12
    /\ IsPad(szArgs[4].Type)
    /\ szArgs[5].Type.buf = "parent"
    /\ szArgs[5].Val = W(28)

(***************************************************************************)
(* sanitizeCall on a generated call.                                       *)
(***************************************************************************)
MaxSanitize == 2

ModeChoices ==
    {W(S_IFREG), W(S_IFIFO), W(S_IFSOCK), W(S_IFBLK), W(S_IFCHR), W(S_IFREG + 420), W(0)}

DevChoices == {W(0), W(S_IFBLK)}

ExitChoices ==
    {W(0), W(1), W(66), W(67), W(68), W(69), W(195), W(196), W(197),
     <<67, 1, 0, 0>>, WMax}

FileArg == Ptr("file", dataArg(BufferType("name", BufferFilename, DirIn), <<1>>))
IntArg(name, v) == constArg(IntType(name, 8), v)

SanPool ==
    {MkCall("mknod", "mknod", <<FileArg, Flags(m), IntArg("dev", d)>>, NoArg) :
        m \in ModeChoices, d \in DevChoices}
    \cup {MkCall("mknodat", "mknodat",
                 <<resultArg(FdIn), FileArg, Flags(m), IntArg("dev", d)>>, NoArg) :
            m \in ModeChoices, d \in DevChoices}
    \cup {MkCall(n, n, <<IntArg("code", v)>>, NoArg) :
            n \in {"exit", "exit_group"}, v \in ExitChoices}
    \cup {Mmap(Vma(W(0)), Pages(W(1), 0), f, InvalidFDArg) : f \in MmapFlagChoices}
    \cup {Mremap(Vma(W(0)), Pages(W(1), 0), Pages(W(1), 0), f, Vma(W(1))) :
            f \in {W(0), W(MREMAP_MAYMOVE), W(MREMAP_MAYMOVE + MREMAP_FIXED)}}
    \cup {MkCall("syslog", "syslog", <<Flags(v)>>, NoArg) :
            v \in {W(SYSLOG_ACTION_CONSOLE_OFF), W(SYSLOG_ACTION_CONSOLE_ON),
                   W(SYSLOG_ACTION_SIZE_UNREAD), W(2)}}
    \cup {MkCall("ioctl$FIFREEZE", "ioctl", <<resultArg(FdIn), IntArg("cmd", v)>>, NoArg) :
            v \in {FIFREEZE, FITHAW, [FIFREEZE EXCEPT ![3] = 7], W(1)}}
    \cup {MkCall("ptrace", "ptrace", <<Flags(v)>>, NoArg) : v \in {W(PTRACE_TRACEME), W(16)}}
    \cup {cOpen}

InitSanitize ==
    /\ sanCall \in SanPool
    /\ sanPrev = sanCall
    /\ sanRuns = 0
    /\ sanFault = NoFault
    /\ AnIdle /\ SzIdle

\* sanitizeCall(c).
Sanitize ==
    /\ sanFault = NoFault /\ sanRuns < MaxSanitize
    /\ sanCall' = sanitizeCall(sanCall).call
    /\ sanFault' = sanitizeCall(sanCall).fault
    /\ sanPrev' = sanCall
    /\ sanRuns' = sanRuns + 1
    /\ UNCHANGED <<anVars, szVars>>

NextSanitize == Sanitize

SpecSanitize == InitSanitize /\ [][NextSanitize]_vars

(***************************************************************************)
(* Properties of the sanitizer.                                            *)
(***************************************************************************)
\* The mode argument: index 1 of mknod, index 2 of mknodat.
ModeAt(c) == IF c.CallName = "mknodat" THEN At(c.Args, 2) ELSE At(c.Args, 1)

SafeModes == {W(S_IFREG), W(S_IFIFO), W(S_IFSOCK)}

\* c and d are the same call but for the value of one argument.
SameButVal(c, d, i) ==
    /\ c.Name = d.Name /\ c.CallName = d.CallName /\ c.Ret = d.Ret
    /\ Len(c.Args) = Len(d.Args)
    /\ \A j \in 1..Len(c.Args) :
          IF j = i + 1 THEN [c.Args[j] EXCEPT !.Val = W(0)] = [d.Args[j] EXCEPT !.Val = W(0)]
          ELSE c.Args[j] = d.Args[j]

\* C7: after sanitizeCall on a mknod or mknodat call the mode is one of
\* regular file, fifo and socket: the mode it had if that was one of the
\* three, fifo otherwise; no other argument is changed.
C7_MknodModeIsSafe ==
    (sanRuns >= 1 /\ sanPrev.CallName \in {"mknod", "mknodat"}) =>
        /\ sanFault = NoFault
        /\ ModeAt(sanCall).Val \in SafeModes
        /\ ModeAt(sanCall).Val =
              IF ModeAt(sanPrev).Val \in SafeModes THEN ModeAt(sanPrev).Val ELSE W(S_IFIFO)
        /\ SameButVal(sanPrev, sanCall, IF sanPrev.CallName = "mknodat" THEN 2 ELSE 1)

\* mknodat with a block-device mode and a device number equal to that mode.
C7_Witness ==
    /\ sanRuns = 1 /\ sanPrev.CallName = "mknodat"
    /\ ModeAt(sanPrev).Val = W(S_IFBLK)
    /\ ModeAt(sanCall).Val = W(S_IFIFO)
    /\ At(sanCall.Args, 3).Val = W(S_IFBLK)

Low7(v) == v[1] % 128

\* C8: after sanitizeCall on an exit or exit_group call the code is 1 if its
\* value modulo 128 was 67 or 68 and is what it was otherwise; the low 7 bits
\* of a sanitized code are never 67 or 68; a second sanitizeCall changes
\* nothing.
C8_ExitCodeNotReserved ==
    (sanRuns >= 1 /\ sanPrev.CallName \in {"exit", "exit_group"}) =>
        /\ sanFault = NoFault
        /\ At(sanCall.Args, 0).Val =
              IF Low7(At(sanPrev.Args, 0).Val) \in {67, 68} THEN W(1)
              ELSE At(sanPrev.Args, 0).Val
        /\ Low7(At(sanCall.Args, 0).Val) \notin {67, 68}
        /\ SameButVal(sanPrev, sanCall, 0)
        /\ sanRuns >= 2 => sanCall = sanPrev

\* exit(195) becomes exit(1).
C8_Witness ==
    /\ sanRuns = 1 /\ sanPrev.CallName = "exit"
    /\ At(sanPrev.Args, 0).Val = W(195)
    /\ At(sanCall.Args, 0).Val = W(1)

=============================================================================
